---- MODULE Spec2Model ----
(***************************************************************************)
(* CHIP-8 interpreter (src/src/Chip8.rs) driven by the host loop of        *)
(* src/src/main.rs and the input handling of src/src/platform.rs.          *)
(*                                                                         *)
(* The machine is the record chip8, one field per field of struct Chip8.   *)
(* Every opcode handler is an operator from a machine record to a result   *)
(* [m, ok, calls]: m is the machine as the handler left it, ok is FALSE    *)
(* when the handler panicked (m is then the state at the panic), calls is  *)
(* the sequence of functions invoked through the dispatch tables.          *)
(*                                                                         *)
(* The two large arrays, memory ([u8; 4096]) and video ([u8; 64 * 32]),    *)
(* are held as the function from the indices of their non-zero cells to    *)
(* the cells' values; Peek reads a cell and Poke writes one, so that two   *)
(* arrays are equal exactly when these functions are.  An index outside    *)
(* the array never reaches Peek or Poke: the bounds check of the access is *)
(* modelled where the access is made.                                      *)
(*                                                                         *)
(* Rust integer arithmetic depends on the build profile: with overflow     *)
(* checks (the default of the dev profile) an overflowing +, - or * on a   *)
(* fixed-width integer panics, without them (the default of the release    *)
(* profile) it wraps.  The variable overflow_checks is the profile the     *)
(* binary was built with; both are behaviours of this source.              *)
(***************************************************************************)
EXTENDS Integers, Sequences, FiniteSets, TLC

VARIABLES
    chip8,            \* the machine: struct Chip8
    overflow_checks,  \* build profile: integer overflow panics (TRUE) or wraps
    main_pc,          \* position of main(): "load", "loop", "quit", "panicked"
    load_result,      \* what load_rom returned: "none" before the call, "Ok", "Err"
    invoked           \* functions invoked through the tables by the last cycle

vars == <<chip8, overflow_checks, main_pc, load_result, invoked>>

(***************************************************************************)
(* Program constants                                                       *)
(***************************************************************************)
START_ADDRESS == 512
FONTSET_SIZE == 80
FONTSET_START_ADDRESS == 80
VIDEO_HEIGHT == 32
VIDEO_WIDTH == 64
MEMORY_SIZE == 4096
VIDEO_SIZE == 2048

FONTSET ==
    << 240, 144, 144, 144, 240,    32,  96,  32,  32, 112,
       240,  16, 240, 128, 240,   240,  16, 240,  16, 240,
       144, 144, 240,  16,  16,   240, 128, 240,  16, 240,
       240, 128, 240, 144, 240,   240,  16,  32,  64,  64,
       240, 144, 240, 144, 240,   240, 144, 240,  16, 240,
       240, 144, 240, 144, 144,   224, 144, 224, 144, 224,
       240, 128, 128, 128, 240,   224, 144, 144, 144, 224,
       240, 128, 240, 128, 240,   240, 128, 240, 128, 128 >>

(***************************************************************************)
(* Fixed-width helpers: the masks and shifts the handlers apply to the     *)
(* opcode, and the bitwise operators on bytes.                             *)
(***************************************************************************)
RECURSIVE BitOp(_, _, _, _)
\* bitwise combination of the low n bits of a and b; op is "and", "or", "xor"
BitOp(op, a, b, n) ==
    IF n = 0 THEN 0
    ELSE LET x == a % 2
             y == b % 2
             bit == CASE op = "and" -> IF x = 1 /\ y = 1 THEN 1 ELSE 0
                      [] op = "or"  -> IF x = 1 \/ y = 1 THEN 1 ELSE 0
                      [] OTHER      -> IF x # y THEN 1 ELSE 0
         IN bit + 2 * BitOp(op, a \div 2, b \div 2, n - 1)

\* & | ^ on u8 operands
BitAnd(a, b) == BitOp("and", a, b, 8)
BitOr(a, b)  == BitOp("or", a, b, 8)
BitXor(a, b) == BitOp("xor", a, b, 8)

\* (opcode & 0xF000) >> 12
TopNibble(op) == op \div 4096
\* (opcode & 0x0F00) >> 8
VxOf(op) == (op \div 256) % 16
\* (opcode & 0x00F0) >> 4
VyOf(op) == (op \div 16) % 16
\* opcode & 0x000F
LowNibble(op) == op % 16
\* (opcode & 0x00FF) as u8
ByteOf(op) == op % 256
\* opcode & 0x0FFF
AddressOf(op) == op % 4096

\* arr[i] of an array held by its non-zero cells
Peek(arr, i) == IF i \in DOMAIN arr THEN arr[i] ELSE 0
\* arr[i] = v
Poke(arr, i, v) ==
    IF v = 0 THEN [j \in DOMAIN arr \ {i} |-> arr[j]]
    ELSE [j \in DOMAIN arr \cup {i} |-> IF j = i THEN v ELSE arr[j]]
\* [0; n]
Zeroed == [j \in {} |-> 0]

Ok(m) == [m |-> m, ok |-> TRUE, calls |-> <<>>]
Panic(m) == [m |-> m, ok |-> FALSE, calls |-> <<>>]
\* the result r of a function reached through a table, logged under its name
Called(name, r) == [r EXCEPT !.calls = <<name>> \o r.calls]

(***************************************************************************)
(* Chip8::new                                                              *)
(***************************************************************************)
new ==
    [ registers   |-> [i \in 0..15 |-> 0],
      memory      |-> [a \in {FONTSET_START_ADDRESS + i : i \in 0..(FONTSET_SIZE - 1)}
                              |-> FONTSET[a - FONTSET_START_ADDRESS + 1]],
      index       |-> 0,
      pc          |-> START_ADDRESS,
      stack       |-> [i \in 0..15 |-> 0],
      sp          |-> 0,
      delay_timer |-> 0,
      sound_timer |-> 0,
      keypad      |-> [i \in 0..15 |-> 0],
      video       |-> Zeroed,
      opcode      |-> 0 ]

\* the dispatch tables as Chip8::new fills them; a table of size n has the
\* slots 0..n-1, every slot not assigned is op_null
table ==
    [i \in 0..15 |->
        CASE i = 0  -> "table_0" [] i = 1  -> "op_1nnn" [] i = 2  -> "op_2nnn"
          [] i = 3  -> "op_3xkk" [] i = 4  -> "op_4xkk" [] i = 5  -> "op_5xy0"
          [] i = 6  -> "op_6xkk" [] i = 7  -> "op_7xkk" [] i = 8  -> "table_8"
          [] i = 9  -> "op_9xy0" [] i = 10 -> "op_annn" [] i = 11 -> "op_bnnn"
          [] i = 12 -> "op_cxkk" [] i = 13 -> "op_dxyn" [] i = 14 -> "table_e"
          [] OTHER  -> "table_f"]

table_0_slots ==
    [i \in 0..14 |->
        CASE i = 0 -> "op_00e0" [] i = 14 -> "op_00ee" [] OTHER -> "op_null"]

table_8_slots ==
    [i \in 0..14 |->
        CASE i = 0 -> "op_8xy0" [] i = 1 -> "op_8xy1" [] i = 2 -> "op_8xy2"
          [] i = 3 -> "op_8xy3" [] i = 4 -> "op_8xy4" [] i = 5 -> "op_8xy5"
          [] i = 6 -> "op_8xy6" [] i = 7 -> "op_8xy7" [] i = 14 -> "op_8xye"
          [] OTHER -> "op_null"]

table_e_slots ==
    [i \in 0..14 |->
        CASE i = 1 -> "op_exa1" [] i = 14 -> "op_ex9e" [] OTHER -> "op_null"]

table_f_slots ==
    [i \in 0..101 |->
        CASE i = 7  -> "op_fx07" [] i = 10 -> "op_fx0a" [] i = 21 -> "op_fx15"
          [] i = 24 -> "op_fx18" [] i = 30 -> "op_fx1e" [] i = 41 -> "op_fx29"
          [] i = 51 -> "op_fx33" [] i = 85 -> "op_fx55" [] i = 101 -> "op_fx65"
          [] OTHER  -> "op_null"]

(***************************************************************************)
(* Fixed-width arithmetic.  An operation that leaves its type's range      *)
(* panics when the build checks overflow and wraps otherwise.              *)
(***************************************************************************)
\* does v leave the range of an unsigned integer of the given width
Overflows(v, width) == v < 0 \/ v >= 2 ^ width
\* the value an unchecked build computes
Wrap(v, width) == v % (2 ^ width)
\* the arithmetic panics
Trips(v, width) == overflow_checks /\ Overflows(v, width)

\* self.memory[(base + off) as usize] with base, off of type u16: the
\* address read or written, or -1 when the access panics
MemAddr(base, off) ==
    IF Trips(base + off, 16) THEN -1
    ELSE IF Wrap(base + off, 16) >= MEMORY_SIZE THEN -1
    ELSE Wrap(base + off, 16)

SetReg(m, x, v) == [m EXCEPT !.registers[x] = v]

(***************************************************************************)
(* The opcode handlers                                                     *)
(***************************************************************************)
op_null(m) == Ok(m)

op_00e0(m) == Ok([m EXCEPT !.video = Zeroed])

op_00ee(m) ==
    IF Trips(m.sp - 1, 8) THEN Panic(m)
    ELSE LET sp1 == Wrap(m.sp - 1, 8)
             m1 == [m EXCEPT !.sp = sp1]
         IN IF sp1 > 15 THEN Panic(m1)
            ELSE Ok([m1 EXCEPT !.pc = m.stack[sp1]])

op_1nnn(m) == Ok([m EXCEPT !.pc = AddressOf(m.opcode)])

\* op_2nnn that pushes the address of the call itself
op_2nnn_PushesOwnAddress(m) ==
    IF m.sp > 15 THEN Panic(m)
    ELSE Ok([m EXCEPT !.stack[m.sp] = m.pc - 2,
                      !.sp = m.sp + 1,
                      !.pc = AddressOf(m.opcode)])

op_2nnn(m) ==
    IF m.sp > 15 THEN Panic(m)
    ELSE LET m1 == [m EXCEPT !.stack[m.sp] = m.pc]
         IN IF Trips(m.sp + 1, 8) THEN Panic(m1)
            ELSE Ok([m1 EXCEPT !.sp = Wrap(m.sp + 1, 8),
                               !.pc = AddressOf(m.opcode)])

\* self.pc += 2 of the skip handlers
Skip(m) ==
    IF Trips(m.pc + 2, 16) THEN Panic(m)
    ELSE Ok([m EXCEPT !.pc = Wrap(m.pc + 2, 16)])

op_3xkk(m) ==
    IF m.registers[VxOf(m.opcode)] = ByteOf(m.opcode) THEN Skip(m) ELSE Ok(m)

op_4xkk(m) ==
    IF m.registers[VxOf(m.opcode)] = ByteOf(m.opcode) THEN Skip(m) ELSE Ok(m)

op_5xy0(m) ==
    IF m.registers[VxOf(m.opcode)] = ByteOf(m.opcode) THEN Skip(m) ELSE Ok(m)

op_6xkk(m) == Ok(SetReg(m, VxOf(m.opcode), ByteOf(m.opcode)))

op_7xkk(m) ==
    LET vx == VxOf(m.opcode)
        sum == m.registers[vx] + ByteOf(m.opcode)
    IN IF Trips(sum, 8) THEN Panic(m) ELSE Ok(SetReg(m, vx, Wrap(sum, 8)))

op_8xy0(m) == Ok(SetReg(m, VxOf(m.opcode), m.registers[VyOf(m.opcode)]))

op_8xy1(m) ==
    LET vx == VxOf(m.opcode)
    IN Ok(SetReg(m, vx, BitOr(m.registers[vx], m.registers[VyOf(m.opcode)])))

op_8xy2(m) ==
    LET vx == VxOf(m.opcode)
    IN Ok(SetReg(m, vx, BitAnd(m.registers[vx], m.registers[VyOf(m.opcode)])))

op_8xy3(m) ==
    LET vx == VxOf(m.opcode)
    IN Ok(SetReg(m, vx, BitXor(m.registers[vx], m.registers[VyOf(m.opcode)])))

\* the sum is formed in u8 and only then widened to u16
op_8xy4(m) ==
    LET vx == VxOf(m.opcode)
        vy == VyOf(m.opcode)
        raw == m.registers[vx] + m.registers[vy]
        sum == Wrap(raw, 8)
        m1 == SetReg(m, 15, IF sum > 255 THEN 1 ELSE 0)
    IN IF Trips(raw, 8) THEN Panic(m)
       ELSE Ok(SetReg(m1, vx, sum % 256))

op_8xy5(m) ==
    LET vx == VxOf(m.opcode)
        vy == VyOf(m.opcode)
        m1 == SetReg(m, 15, IF m.registers[vx] > m.registers[vy] THEN 1 ELSE 0)
        diff == m1.registers[vx] - m1.registers[vy]
    IN IF Trips(diff, 8) THEN Panic(m1) ELSE Ok(SetReg(m1, vx, Wrap(diff, 8)))

op_8xy6(m) ==
    LET vx == VxOf(m.opcode)
        m1 == SetReg(m, 15, m.registers[vx] % 2)
    IN Ok(SetReg(m1, vx, m1.registers[vx] \div 2))

op_8xy7(m) ==
    LET vx == VxOf(m.opcode)
        vy == VyOf(m.opcode)
        m1 == SetReg(m, 15, IF m.registers[vy] > m.registers[vx] THEN 1 ELSE 0)
        diff == m1.registers[vy] - m1.registers[vx]
    IN IF Trips(diff, 8) THEN Panic(m1) ELSE Ok(SetReg(m1, vx, Wrap(diff, 8)))

op_8xye(m) ==
    LET vx == VxOf(m.opcode)
        m1 == SetReg(m, 15, (m.registers[vx] \div 128) % 2)
    IN Ok(SetReg(m1, vx, (2 * m1.registers[vx]) % 256))

op_9xy0(m) ==
    IF m.registers[VxOf(m.opcode)] # m.registers[VyOf(m.opcode)]
    THEN Skip(m) ELSE Ok(m)

op_annn(m) ==
    LET target == m.registers[0] + AddressOf(m.opcode)
    IN IF Trips(target, 16) THEN Panic(m)
       ELSE Ok([m EXCEPT !.pc = Wrap(target, 16)])

op_bnnn(m) ==
    LET target == m.registers[0] + AddressOf(m.opcode)
    IN IF Trips(target, 16) THEN Panic(m)
       ELSE Ok([m EXCEPT !.pc = Wrap(target, 16)])

\* rnd is the byte self.rng_core.gen::<u8>() returns
op_cxkk(m, rnd) == Ok(SetReg(m, VxOf(m.opcode), BitAnd(rnd, ByteOf(m.opcode))))

\* a toggle of the low bit only
Toggle_LowBit(screen_pixel) == BitXor(screen_pixel, 1)

\* *screen_pixel ^= 0xFF
Toggle(screen_pixel) == BitXor(screen_pixel, 255)

RECURSIVE DrawRow(_, _, _, _, _, _)
\* the inner loop of op_dxyn, from column col on; every operand of the pixel
\* index is a u8
DrawRow(m, x_pos, y_pos, sprite_byte, row, col) ==
    IF col >= 8 THEN Ok(m)
    ELSE
      LET sprite_pixel == (sprite_byte \div (2 ^ (7 - col))) % 2
          line == (y_pos + row) * VIDEO_WIDTH
          screen_pixel_index == Wrap(line, 8) + (x_pos + col)
          at == Wrap(screen_pixel_index, 8)
          lit == [m EXCEPT !.registers[15] = 1]
          m1 == IF Peek(m.video, at) = 255 THEN lit ELSE m
          m2 == [m1 EXCEPT !.video = Poke(@, at, Toggle(Peek(@, at)))]
      IN IF Trips(y_pos + row, 8) \/ Trips(line, 8)
            \/ Trips(x_pos + col, 8) \/ Trips(screen_pixel_index, 8)
         THEN Panic(m)
         ELSE IF at >= VIDEO_SIZE THEN Panic(m)
         ELSE DrawRow(IF sprite_pixel # 0 THEN m2 ELSE m,
                      x_pos, y_pos, sprite_byte, row, col + 1)

RECURSIVE DrawRows(_, _, _, _, _)
\* the outer loop of op_dxyn, from row row on
DrawRows(m, x_pos, y_pos, height, row) ==
    IF row >= height THEN Ok(m)
    ELSE LET src == MemAddr(m.index, row)
             r == DrawRow(m, x_pos, y_pos, Peek(m.memory, src), row, 0)
         IN IF src = -1 THEN Panic(m)
            ELSE IF ~r.ok THEN r
            ELSE DrawRows(r.m, x_pos, y_pos, height, row + 1)

op_dxyn(m) ==
    LET x_pos == m.registers[VxOf(m.opcode)] % VIDEO_WIDTH
        y_pos == m.registers[VyOf(m.opcode)] % VIDEO_HEIGHT
    IN DrawRows(SetReg(m, 15, 0), x_pos, y_pos, LowNibble(m.opcode), 0)

op_ex9e(m) ==
    LET key == m.registers[VxOf(m.opcode)]
    IN IF key > 15 THEN Panic(m)
       ELSE IF m.keypad[key] > 0 THEN Skip(m) ELSE Ok(m)

op_exa1(m) ==
    LET key == m.registers[VxOf(m.opcode)]
    IN IF key > 15 THEN Panic(m)
       ELSE IF m.keypad[key] = 0 THEN Skip(m) ELSE Ok(m)

op_fx07(m) == Ok(SetReg(m, VxOf(m.opcode), m.delay_timer))

\* op_fx0a that does not rewind the program counter
op_fx0a_NoRewind(m) ==
    LET pressed == {i \in 0..15 : m.keypad[i] > 0}
        first == CHOOSE i \in pressed : \A j \in pressed : i <= j
    IN IF pressed # {} THEN Ok(SetReg(m, VxOf(m.opcode), first)) ELSE Ok(m)

\* op_fx0a that clears the key it has read
op_fx0a_ConsumesKey(m) ==
    LET pressed == {i \in 0..15 : m.keypad[i] > 0}
        first == CHOOSE i \in pressed : \A j \in pressed : i <= j
    IN IF pressed # {}
       THEN Ok([SetReg(m, VxOf(m.opcode), first) EXCEPT !.keypad[first] = 0])
       ELSE IF Trips(m.pc - 2, 16) THEN Panic(m)
       ELSE Ok([m EXCEPT !.pc = Wrap(m.pc - 2, 16)])

op_fx0a(m) ==
    LET pressed == {i \in 0..15 : m.keypad[i] > 0}
        first == CHOOSE i \in pressed : \A j \in pressed : i <= j
    IN IF pressed # {} THEN Ok(SetReg(m, VxOf(m.opcode), first))
       ELSE IF Trips(m.pc - 2, 16) THEN Panic(m)
       ELSE Ok([m EXCEPT !.pc = Wrap(m.pc - 2, 16)])

op_fx15(m) == Ok([m EXCEPT !.delay_timer = m.registers[VxOf(m.opcode)]])

op_fx18(m) == Ok([m EXCEPT !.sound_timer = m.registers[VxOf(m.opcode)]])

op_fx1e(m) ==
    LET sum == m.index + m.registers[VxOf(m.opcode)]
    IN IF Trips(sum, 16) THEN Panic(m)
       ELSE Ok([m EXCEPT !.index = Wrap(sum, 16)])

\* 5 * digit is a u8 product
op_fx29(m) ==
    LET digit == m.registers[VxOf(m.opcode)]
    IN IF Trips(5 * digit, 8) THEN Panic(m)
       ELSE Ok([m EXCEPT !.index =
                   Wrap(FONTSET_START_ADDRESS + Wrap(5 * digit, 8), 16)])

op_fx33(m) ==
    LET value == m.registers[VxOf(m.opcode)]
        a2 == MemAddr(m.index, 2)
        a1 == MemAddr(m.index, 1)
        a0 == MemAddr(m.index, 0)
        m2 == [m EXCEPT !.memory = Poke(@, a2, value % 10)]
        m1 == [m2 EXCEPT !.memory = Poke(@, a1, (value \div 10) % 10)]
        m0 == [m1 EXCEPT !.memory = Poke(@, a0, (value \div 100) % 10)]
    IN IF a2 = -1 THEN Panic(m)
       ELSE IF a1 = -1 THEN Panic(m2)
       ELSE IF a0 = -1 THEN Panic(m1)
       ELSE Ok(m0)

RECURSIVE StoreLoop(_, _, _)
\* the loop of op_fx55 from register i on
StoreLoop(m, vx, i) ==
    IF i > vx THEN Ok(m)
    ELSE LET a == MemAddr(m.index, i)
         IN IF a = -1 THEN Panic(m)
            ELSE StoreLoop([m EXCEPT !.memory = Poke(@, a, m.registers[i])],
                           vx, i + 1)

op_fx55(m) == StoreLoop(m, VxOf(m.opcode), 0)

RECURSIVE LoadLoop(_, _, _)
\* the loop of op_fx65 from register i on
LoadLoop(m, vx, i) ==
    IF i > vx THEN Ok(m)
    ELSE LET a == MemAddr(m.index, i)
         IN IF a = -1 THEN Panic(m)
            ELSE LoadLoop(SetReg(m, i, Peek(m.memory, a)), vx, i + 1)

op_fx65(m) == LoadLoop(m, VxOf(m.opcode), 0)

(***************************************************************************)
(* Dispatch                                                                *)
(***************************************************************************)
\* a call of the function pointer a table slot holds
Handler(name, m, rnd) ==
    Called(name,
      CASE name = "op_null" -> op_null(m)
        [] name = "op_00e0" -> op_00e0(m)
        [] name = "op_00ee" -> op_00ee(m)
        [] name = "op_1nnn" -> op_1nnn(m)
        [] name = "op_2nnn" -> op_2nnn(m)
        [] name = "op_3xkk" -> op_3xkk(m)
        [] name = "op_4xkk" -> op_4xkk(m)
        [] name = "op_5xy0" -> op_5xy0(m)
        [] name = "op_6xkk" -> op_6xkk(m)
        [] name = "op_7xkk" -> op_7xkk(m)
        [] name = "op_8xy0" -> op_8xy0(m)
        [] name = "op_8xy1" -> op_8xy1(m)
        [] name = "op_8xy2" -> op_8xy2(m)
        [] name = "op_8xy3" -> op_8xy3(m)
        [] name = "op_8xy4" -> op_8xy4(m)
        [] name = "op_8xy5" -> op_8xy5(m)
        [] name = "op_8xy6" -> op_8xy6(m)
        [] name = "op_8xy7" -> op_8xy7(m)
        [] name = "op_8xye" -> op_8xye(m)
        [] name = "op_9xy0" -> op_9xy0(m)
        [] name = "op_annn" -> op_annn(m)
        [] name = "op_bnnn" -> op_bnnn(m)
        [] name = "op_cxkk" -> op_cxkk(m, rnd)
        [] name = "op_dxyn" -> op_dxyn(m)
        [] name = "op_ex9e" -> op_ex9e(m)
        [] name = "op_exa1" -> op_exa1(m)
        [] name = "op_fx07" -> op_fx07(m)
        [] name = "op_fx0a" -> op_fx0a(m)
        [] name = "op_fx15" -> op_fx15(m)
        [] name = "op_fx18" -> op_fx18(m)
        [] name = "op_fx1e" -> op_fx1e(m)
        [] name = "op_fx29" -> op_fx29(m)
        [] name = "op_fx33" -> op_fx33(m)
        [] name = "op_fx55" -> op_fx55(m)
        [] name = "op_fx65" -> op_fx65(m))

\* self.<slots>[key](self): indexing past the table's last slot panics
SubDispatch(slots, key, m, rnd) ==
    IF key \in DOMAIN slots THEN Handler(slots[key], m, rnd) ELSE Panic(m)

table_0(m, rnd) == SubDispatch(table_0_slots, LowNibble(m.opcode), m, rnd)

table_8(m, rnd) == SubDispatch(table_8_slots, LowNibble(m.opcode), m, rnd)

table_e(m, rnd) == SubDispatch(table_e_slots, LowNibble(m.opcode), m, rnd)

table_f(m, rnd) == SubDispatch(table_f_slots, LowNibble(m.opcode), m, rnd)

\* self.table[(self.opcode & 0xF000) >> 12](self)
Dispatch(m, rnd) ==
    LET name == table[TopNibble(m.opcode)]
    IN CASE name = "table_0" -> Called(name, table_0(m, rnd))
         [] name = "table_8" -> Called(name, table_8(m, rnd))
         [] name = "table_e" -> Called(name, table_e(m, rnd))
         [] name = "table_f" -> Called(name, table_f(m, rnd))
         [] OTHER -> Handler(name, m, rnd)

\* the timer decay with the tests for zero left out
DecayTimers_Unguarded(m) ==
    [m EXCEPT !.delay_timer = Wrap(@ - 1, 8),
              !.sound_timer = Wrap(@ - 1, 8)]

\* the timer decay that ends cycle
DecayTimers(m) ==
    [m EXCEPT !.delay_timer = IF @ > 0 THEN @ - 1 ELSE @,
              !.sound_timer = IF @ > 0 THEN @ - 1 ELSE @]

\* Fetch with the two bytes swapped
Fetch_LittleEndian(m) ==
    IF m.pc >= MEMORY_SIZE \/ MemAddr(m.pc, 1) = -1 THEN -1
    ELSE Peek(m.memory, MemAddr(m.pc, 1)) * 256 + Peek(m.memory, m.pc)

\* the opcode cycle fetches at m.pc, or -1 when a fetch leaves the memory
Fetch(m) ==
    IF m.pc >= MEMORY_SIZE \/ MemAddr(m.pc, 1) = -1 THEN -1
    ELSE Peek(m.memory, m.pc) * 256 + Peek(m.memory, MemAddr(m.pc, 1))

\* Chip8::cycle
cycle(m, rnd) ==
    LET fetched == Fetch(m)
        m1 == [m EXCEPT !.opcode = fetched]
        m2 == [m1 EXCEPT !.pc = Wrap(m1.pc + 2, 16)]
        r == Dispatch(m2, rnd)
    IN IF fetched = -1 THEN Panic(m)
       ELSE IF Trips(m1.pc + 2, 16) THEN Panic(m1)
       ELSE IF r.ok THEN [r EXCEPT !.m = DecayTimers(r.m)]
       ELSE r

(***************************************************************************)
(* Chip8::load_rom                                                         *)
(***************************************************************************)
\* the copy loop of load_rom with the last byte of the buffer left out
CopyRom_DropsLastByte(m, buffer) ==
    LET room == MEMORY_SIZE - START_ADDRESS
        copied == IF Len(buffer) <= room THEN Len(buffer) - 1 ELSE room
        target == {START_ADDRESS + i : i \in 0..(copied - 1)}
        lit == {a \in target : buffer[a - START_ADDRESS + 1] # 0}
        memory == [a \in (DOMAIN m.memory \ target) \cup lit |->
                      IF a \in target THEN buffer[a - START_ADDRESS + 1]
                      ELSE m.memory[a]]
        m1 == [m EXCEPT !.memory = memory]
    IN IF Len(buffer) <= room THEN Ok(m1) ELSE Panic(m1)

\* the copy loop of load_rom: byte i (counted from 0) goes to
\* memory[START_ADDRESS + i]; the first byte that falls outside the memory
\* panics, after the bytes before it were copied
CopyRom(m, buffer) ==
    LET room == MEMORY_SIZE - START_ADDRESS
        copied == IF Len(buffer) <= room THEN Len(buffer) ELSE room
        target == {START_ADDRESS + i : i \in 0..(copied - 1)}
        lit == {a \in target : buffer[a - START_ADDRESS + 1] # 0}
        memory == [a \in (DOMAIN m.memory \ target) \cup lit |->
                      IF a \in target THEN buffer[a - START_ADDRESS + 1]
                      ELSE m.memory[a]]
        m1 == [m EXCEPT !.memory = memory]
    IN IF Len(buffer) <= room THEN Ok(m1) ELSE Panic(m1)

\* load_rom that copies what it has read before it looks at the error
load_rom_CopiesBeforeError(m, file) ==
    IF ~file.readable THEN [ret |-> "Err"] @@ Ok(CopyRom(m, file.bytes).m)
    ELSE [ret |-> "Ok"] @@ CopyRom(m, file.bytes)

\* file.readable is FALSE when File::open, metadata or read_to_end fails;
\* the ? operator then returns the error before the copy loop
load_rom(m, file) ==
    IF ~file.readable THEN [ret |-> "Err"] @@ Ok(m)
    ELSE [ret |-> "Ok"] @@ CopyRom(m, file.bytes)

(***************************************************************************)
(* Platform::process_input                                                 *)
(***************************************************************************)
\* Platform::key_to_chip8_key; -1 is None
key_to_chip8_key(key) ==
    CASE key = "X" -> 0     [] key = "Num1" -> 1 [] key = "Num2" -> 2
      [] key = "Num3" -> 3  [] key = "Q" -> 4    [] key = "W" -> 5
      [] key = "E" -> 6     [] key = "A" -> 7    [] key = "S" -> 8
      [] key = "D" -> 9     [] key = "Z" -> 10   [] key = "C" -> 11
      [] key = "Num4" -> 12 [] key = "R" -> 13   [] key = "F" -> 14
      [] key = "V" -> 15    [] OTHER -> -1

RECURSIVE process_input(_, _)
\* the event loop over the polled events; keycode "None" is an event that
\* carries no keycode.  The result is the key state and the returned flag.
process_input(keys, events) ==
    IF events = <<>> THEN [keys |-> keys, quit |-> FALSE]
    ELSE
      LET event == Head(events)
          idx == key_to_chip8_key(event.keycode)
          pressed == IF event.type = "KeyDown" THEN 1 ELSE 0
          keys1 == IF idx # -1 THEN [keys EXCEPT ![idx] = pressed] ELSE keys
      IN CASE event.type = "Quit" -> [keys |-> keys, quit |-> TRUE]
           [] event.type \in {"KeyDown", "KeyUp"} ->
                IF event.keycode = "None" THEN process_input(keys, Tail(events))
                ELSE IF event.keycode = "Escape"
                     THEN [keys |-> keys1, quit |-> TRUE]
                ELSE process_input(keys1, Tail(events))
           [] OTHER -> process_input(keys, Tail(events))

(***************************************************************************)
(* The inputs: program images and host events                              *)
(***************************************************************************)
\* the most events one poll of the event pump returns
MaxEvents == 1
\* the deepest chain of nested calls among the program images
MaxDepth == 16

\* instruction words
Op(n, x, y, z) == n * 4096 + x * 256 + y * 16 + z
OpK(n, x, kk) == n * 4096 + x * 256 + kk
OpA(n, nnn) == n * 4096 + nnn
\* the address of the k-th word (from 0) of a program image
At(k) == START_ADDRESS + 2 * k
\* a program followed by two jump-to-self words, where it stays
Halting(words) ==
    words \o <<OpA(1, At(Len(words))), OpA(1, At(Len(words) + 1))>>
\* the bytes of a program image, big-endian
Bytes(words) ==
    [i \in 1..(2 * Len(words)) |->
        IF i % 2 = 1 THEN words[(i + 1) \div 2] \div 256
        ELSE words[i \div 2] % 256]

ByteVals == {0, 1, 100, 156, 200, 255}
RegPairs == {<<0, 1>>, <<1, 0>>, <<1, 15>>, <<15, 1>>, <<15, 15>>}
Regs == {0, 1, 15}
LowBytes == {0, 1, 7, 10, 14, 15, 21, 23, 24, 30, 31, 41, 51, 85, 101,
             158, 161, 224, 238, 255}
Keys == {0, 7, 16}
Heights == {0, 1, 4, 5, 15}
XVals == {0, 60, 63, 64, 255}
YVals == {0, 3, 4, 31, 32}

\* one instruction of every family, on the registers as new leaves them
SingleOps ==
    {<<OpK(n, x, kk)>> : n \in {0, 8, 14, 15}, x \in Regs, kk \in LowBytes}
    \cup {<<OpK(n, x, kk)>> : n \in {3, 4, 5, 6, 7, 9, 12, 13},
                              x \in {0, 15}, kk \in {0, 5, 255}}
    \cup {<<OpA(n, At(k))>> : n \in {1, 2, 10, 11}, k \in {0, 1, 2}}
\* two registers loaded, then an instruction on them
PairOps ==
    {<<OpK(6, p[1], a), OpK(6, p[2], b), Op(n, p[1], p[2], z)>> :
        p \in RegPairs, a \in ByteVals, b \in ByteVals,
        n \in {8}, z \in {0, 1, 2, 3, 4, 5, 6, 7, 14}}
    \cup {<<OpK(6, p[1], a), OpK(6, p[2], b), Op(n, p[1], p[2], 0)>> :
        p \in RegPairs, a \in ByteVals, b \in ByteVals, n \in {5, 9}}
\* one register loaded, then an instruction with an immediate byte
ImmediateOps ==
    {<<OpK(6, x, a), OpK(n, x, kk)>> :
        x \in Regs, a \in ByteVals, kk \in ByteVals, n \in {3, 4, 7, 12}}
    \cup {<<OpK(6, 0, a), OpA(n, At(2))>> : a \in {0, 2}, n \in {10, 11}}
\* a key number loaded, then a key instruction
KeyOps ==
    {<<OpK(6, x, k), OpK(n, x, kk)>> :
        x \in Regs, k \in Keys, n \in {14, 15}, kk \in {10, 158, 161}}
\* a position loaded, the screen cleared, then the same draw twice
DrawOps ==
    {<<OpK(6, 0, a), OpK(6, 1, b), OpK(0, 0, 224), Op(13, 0, 1, h),
       Op(13, 0, 1, h)>> : a \in XVals, b \in YVals, h \in Heights}
\* a chain of d nested calls, each followed by its return
CallChain(d) ==
    [k \in 1..(2 * d + 2) |->
        IF k = 2 THEN OpA(1, At(1))
        ELSE IF k % 2 = 0 \/ k = 2 * d + 1 THEN OpK(0, 0, 238)
        ELSE OpA(2, At(k + 1))]
CallOps ==
    {CallChain(d) : d \in 1..MaxDepth}
    \cup {<<OpA(2, At(0))>>, <<OpA(2, At(2)), OpA(1, At(1)), OpK(0, 0, 238)>>}

\* register 1 loaded, then a word no handler is assigned to
UnassignedOps ==
    {<<OpK(6, 1, 5), w>> :
        w \in {OpK(0, 0, 1), OpK(8, 0, 9), OpK(14, 0, 0), OpK(15, 1, 23),
               OpK(15, 0, 255), OpK(15, 1, 26), OpK(15, 1, 0)}}

\* the file a program image is read from
Rom(words) == [readable |-> TRUE, bytes |-> Bytes(Halting(words))]
\* a path that cannot be opened or read
Unreadable == [readable |-> FALSE, bytes |-> <<>>]
\* a file whose read fails after the first bytes arrived in the buffer
Truncated == [readable |-> FALSE, bytes |-> <<18, 0, 96, 5>>]
UnreadableFiles == {Unreadable, Truncated}

\* a file of no bytes
EmptyImage == [readable |-> TRUE, bytes |-> <<>>]
\* the largest image the memory holds from START_ADDRESS on: a jump to
\* itself, zeros, and a last byte that lands in memory[4095]
FullImage ==
    [readable |-> TRUE,
     bytes |-> [i \in 1..(MEMORY_SIZE - START_ADDRESS) |->
                   IF i = 1 THEN 18
                   ELSE IF i = MEMORY_SIZE - START_ADDRESS THEN 255 ELSE 0]]
\* one byte more than fits
OversizeImage ==
    [readable |-> TRUE,
     bytes |-> [i \in 1..(MEMORY_SIZE - START_ADDRESS + 1) |->
                   IF i = 1 THEN 18 ELSE 0]]
BoundaryImages == {EmptyImage, FullImage, OversizeImage}

\* screen-clear, then load register 0 with 5
ScenarioOps == {<<OpK(0, 0, 224), OpK(6, 0, 5)>>}

\* the files main is run on while the host delivers events
Files == {Rom(w) : w \in SingleOps \cup KeyOps \cup CallOps \cup ScenarioOps}
\* the files main is run on while the event pump stays empty
QuietFiles ==
    UnreadableFiles \cup BoundaryImages
    \cup {Rom(w) : w \in SingleOps \cup PairOps \cup ImmediateOps \cup KeyOps
                         \cup DrawOps \cup CallOps \cup UnassignedOps}

HostKeycodes == {"X", "A", "P", "Escape", "None"}
Events ==
    {[type |-> "Quit", keycode |-> "None"], [type |-> "Other", keycode |-> "None"]}
    \cup {[type |-> t, keycode |-> k] :
            t \in {"KeyDown", "KeyUp"}, k \in HostKeycodes}
EventSeqs == UNION {[1..n -> Events] : n \in 0..MaxEvents}

\* the bytes the random generator can return when the next opcode asks for one
RandBytes(m) ==
    IF Fetch(m) # -1 /\ TopNibble(Fetch(m)) = 12 THEN 0..255 ELSE {0}

(***************************************************************************)
(* main: Chip8::new, load_rom, then the loop of process_input and cycle    *)
(***************************************************************************)
Init ==
    /\ chip8 = new
    /\ overflow_checks \in BOOLEAN
    /\ main_pc = "load"
    /\ load_result = "none"
    /\ invoked = <<>>

\* chip8.load_rom(rom_filename) on one of the given files; main drops the
\* result
LoadRomFrom(files) ==
    /\ main_pc = "load"
    /\ \E file \in files :
         LET r == load_rom(chip8, file)
         IN /\ chip8' = r.m
            /\ load_result' = r.ret
            /\ main_pc' = IF r.ok THEN "loop" ELSE "panicked"
    /\ UNCHANGED <<overflow_checks, invoked>>

LoadRom == LoadRomFrom(Files)

LoadQuiet == LoadRomFrom(QuietFiles)

\* quit = platform.process_input(&mut chip8.keypad)
ProcessInput ==
    /\ main_pc = "loop"
    /\ \E events \in EventSeqs :
         LET r == process_input(chip8.keypad, events)
         IN /\ chip8' = [chip8 EXCEPT !.keypad = r.keys]
            /\ main_pc' = IF r.quit THEN "quit" ELSE "loop"
    /\ UNCHANGED <<overflow_checks, load_result, invoked>>

\* chip8.cycle(), once the cycle delay has passed
Cycle ==
    /\ main_pc = "loop"
    /\ \E rnd \in RandBytes(chip8) :
         LET r == cycle(chip8, rnd)
         IN /\ chip8' = r.m
            /\ invoked' = r.calls
            /\ main_pc' = IF r.ok THEN "loop" ELSE "panicked"
    /\ UNCHANGED <<overflow_checks, load_result>>

Next == LoadRom \/ ProcessInput \/ Cycle

Spec == Init /\ [][Next]_vars

\* the files of the key programs
WaitFiles == {Rom(w) : w \in KeyOps \cup {<<OpK(15, x, 10)>> : x \in Regs}}

LoadWait == LoadRomFrom(WaitFiles)

WaitNext == LoadWait \/ ProcessInput \/ Cycle

\* main on the key programs; the loop calls cycle again whenever the cycle
\* delay has passed, so a cycle that stays possible is eventually taken
SpecWait == Init /\ [][WaitNext]_vars /\ WF_vars(Cycle)

\* the runs of main in which no event arrives
QuietNext == LoadQuiet \/ Cycle

SpecQuiet == Init /\ [][QuietNext]_vars

(***************************************************************************)
(* The machine on its own.  Every field of Chip8 is pub: a caller builds   *)
(* the machine, stores a program, sets registers and the index register,   *)
(* and calls cycle.  main never gets there: with op_annn writing pc and    *)
(* table_f keyed on the bottom nibble no run of main changes the index     *)
(* register, so every sprite main draws is read at address 0.              *)
(***************************************************************************)
SpriteHeights == 1..15
Glyphs == {0, 1}

\* a glyph of the font drawn twice at the position (V0, V1)
DrawSetups ==
    {[program |-> <<Op(13, 0, 1, h), Op(13, 0, 1, h)>>,
      registers |-> [i \in 0..15 |-> IF i = 0 THEN a ELSE IF i = 1 THEN b ELSE 0],
      index |-> FONTSET_START_ADDRESS + 5 * d,
      delay_timer |-> 0,
      sound_timer |-> 0] :
        a \in XVals, b \in YVals, h \in SpriteHeights, d \in Glyphs}

\* the length of the straight-line programs run on set timers
TimerSteps == 3
TimerStarts == {0, 1, 2, 3, 4, 255}
\* no-op, load V3, screen-clear, read the delay timer into V3, wait for a key
TimerWords == {OpK(0, 0, 1), OpK(6, 3, 5), OpK(0, 0, 224), OpK(15, 3, 7),
               OpK(15, 3, 10)}
\* both timers set, their start values kept in V2 and V4, then TimerSteps
\* times the same instruction
TimerSetups ==
    {[program |-> [k \in 1..TimerSteps |-> w],
      registers |-> [i \in 0..15 |-> IF i = 2 THEN d ELSE IF i = 4 THEN t ELSE 0],
      index |-> 0,
      delay_timer |-> d,
      sound_timer |-> t] :
        w \in TimerWords, d \in TimerStarts, t \in TimerStarts}

UnitSetups == DrawSetups \cup TimerSetups

\* the machine a caller has set up
Preset(u) ==
    [CopyRom(new, Bytes(Halting(u.program))).m
        EXCEPT !.registers = u.registers, !.index = u.index,
               !.delay_timer = u.delay_timer, !.sound_timer = u.sound_timer]

UnitInit ==
    /\ \E u \in UnitSetups : chip8 = Preset(u)
    /\ overflow_checks \in BOOLEAN
    /\ main_pc = "loop"
    /\ load_result = "Ok"
    /\ invoked = <<>>

SpecUnit == UnitInit /\ [][Cycle]_vars

(***************************************************************************)
(* Vocabulary of the properties                                            *)
(***************************************************************************)
\* the opcode handlers, as opposed to the sub-dispatchers table_0 .. table_f
OpcodeHandlers ==
    {"op_null", "op_00e0", "op_00ee", "op_1nnn", "op_2nnn", "op_3xkk",
     "op_4xkk", "op_5xy0", "op_6xkk", "op_7xkk", "op_8xy0", "op_8xy1",
     "op_8xy2", "op_8xy3", "op_8xy4", "op_8xy5", "op_8xy6", "op_8xy7",
     "op_8xye", "op_9xy0", "op_annn", "op_bnnn", "op_cxkk", "op_dxyn",
     "op_ex9e", "op_exa1", "op_fx07", "op_fx0a", "op_fx15", "op_fx18",
     "op_fx1e", "op_fx29", "op_fx33", "op_fx55", "op_fx65"}
\* the opcode handlers among the functions a cycle invoked
HandlersIn(calls) == {i \in DOMAIN calls : calls[i] \in OpcodeHandlers}
\* the last cycle reached the dispatch (its fetch did not fail)
Dispatched == invoked # <<>>
\* the step is a cycle call that came back
Completes == main_pc' = "loop"
\* the word at address a, big-endian
WordAt(m, a) == Peek(m.memory, a) * 256 + Peek(m.memory, a + 1)
\* the step is a cycle call that changes the state (all conjuncts but the
\* second follow from Cycle; a step that changes nothing satisfies every
\* [A]_vars)
CycleStep ==
    /\ main_pc = "loop"
    /\ vars' # vars
    /\ main_pc' # "quit"
    /\ chip8'.keypad = chip8.keypad
    /\ Cycle
\* the word at pc, which the step fetches when it is a cycle call
Fetched == WordAt(chip8, chip8.pc)
\* the step is a cycle call that fetches a word
Fetches == chip8.pc + 1 < MEMORY_SIZE /\ CycleStep
\* all of the machine but the named fields is left as it was
Keeps(fields) ==
    \A f \in DOMAIN chip8 \ fields : chip8'[f] = chip8[f]

(***************************************************************************)
(* C1  Dispatch is total: whatever 16-bit word a cycle fetched, the        *)
(* dispatch invoked exactly one opcode handler (op_null counts) and did    *)
(* not abort before reaching one.                                          *)
(***************************************************************************)
C1_ExactlyOneHandler ==
    Dispatched => Cardinality(HandlersIn(invoked)) = 1

(***************************************************************************)
(* C2  Every word that encodes a defined opcode is routed to that          *)
(* opcode's own handler: the top nibble selects the entry, the prefixes    *)
(* 0x0, 0x8, 0xE are re-keyed on the bottom nibble and 0xF on the bottom   *)
(* byte.                                                                   *)
(***************************************************************************)
\* the handler the instruction set assigns to a word, "none" if undefined
OwnHandler(w) ==
    LET n == TopNibble(w)
        z == LowNibble(w)
        kk == ByteOf(w)
    IN CASE w = 224 -> "op_00e0"
         [] w = 238 -> "op_00ee"
         [] n = 1 -> "op_1nnn" [] n = 2 -> "op_2nnn" [] n = 3 -> "op_3xkk"
         [] n = 4 -> "op_4xkk" [] n = 5 /\ z = 0 -> "op_5xy0"
         [] n = 6 -> "op_6xkk" [] n = 7 -> "op_7xkk"
         [] n = 8 /\ z = 0 -> "op_8xy0" [] n = 8 /\ z = 1 -> "op_8xy1"
         [] n = 8 /\ z = 2 -> "op_8xy2" [] n = 8 /\ z = 3 -> "op_8xy3"
         [] n = 8 /\ z = 4 -> "op_8xy4" [] n = 8 /\ z = 5 -> "op_8xy5"
         [] n = 8 /\ z = 6 -> "op_8xy6" [] n = 8 /\ z = 7 -> "op_8xy7"
         [] n = 8 /\ z = 14 -> "op_8xye"
         [] n = 9 /\ z = 0 -> "op_9xy0"
         [] n = 10 -> "op_annn" [] n = 11 -> "op_bnnn"
         [] n = 12 -> "op_cxkk" [] n = 13 -> "op_dxyn"
         [] n = 14 /\ kk = 158 -> "op_ex9e" [] n = 14 /\ kk = 161 -> "op_exa1"
         [] n = 15 /\ kk = 7 -> "op_fx07"  [] n = 15 /\ kk = 10 -> "op_fx0a"
         [] n = 15 /\ kk = 21 -> "op_fx15" [] n = 15 /\ kk = 24 -> "op_fx18"
         [] n = 15 /\ kk = 30 -> "op_fx1e" [] n = 15 /\ kk = 41 -> "op_fx29"
         [] n = 15 /\ kk = 51 -> "op_fx33" [] n = 15 /\ kk = 85 -> "op_fx55"
         [] n = 15 /\ kk = 101 -> "op_fx65"
         [] OTHER -> "none"

C2_RoutedToOwnHandler ==
    (Dispatched /\ OwnHandler(chip8.opcode) # "none")
        => invoked[Len(invoked)] = OwnHandler(chip8.opcode)

(***************************************************************************)
(* C3  A cycle fetches the opcode big-endian at pc, adds 2 to pc before    *)
(* the handler runs and decays the timers after it: a cycle whose handler  *)
(* does not write pc ends with pc = old pc + 2.  With 00 E0 60 05 at       *)
(* 0x200, the first two cycles leave register 0 = 5, every framebuffer     *)
(* cell off and pc = 0x204.                                                *)
(***************************************************************************)
\* the handlers whose code assigns self.pc
PcWriters ==
    {"op_00ee", "op_1nnn", "op_2nnn", "op_3xkk", "op_4xkk", "op_5xy0",
     "op_9xy0", "op_annn", "op_bnnn", "op_ex9e", "op_exa1", "op_fx0a"}
\* the handlers whose code assigns a timer
TimerWriters == {"op_fx15", "op_fx18"}

\* memory[0x200..0x204] = 00 E0 60 05
ScenarioLoaded ==
    /\ main_pc # "load"
    /\ WordAt(chip8, START_ADDRESS) = 224
    /\ WordAt(chip8, START_ADDRESS + 2) = 24581

C3_CycleStep ==
    (Fetches /\ Cardinality(HandlersIn(invoked')) = 1)
    => LET handler == invoked'[Len(invoked')]
       IN /\ chip8'.opcode = Peek(chip8.memory, chip8.pc) * 256
                               + Peek(chip8.memory, chip8.pc + 1)
          /\ (handler \notin PcWriters => chip8'.pc = chip8.pc + 2)
          /\ (Completes /\ handler \notin TimerWriters) =>
                /\ chip8'.delay_timer =
                     IF chip8.delay_timer > 0 THEN chip8.delay_timer - 1 ELSE 0
                /\ chip8'.sound_timer =
                     IF chip8.sound_timer > 0 THEN chip8.sound_timer - 1 ELSE 0

C3_ScenarioStep ==
    (ScenarioLoaded /\ CycleStep) =>
        /\ chip8.pc = START_ADDRESS =>
              /\ Completes
              /\ chip8'.pc = START_ADDRESS + 2
              /\ \A i \in 0..(VIDEO_SIZE - 1) : Peek(chip8'.video, i) = 0
        /\ chip8.pc = START_ADDRESS + 2 =>
              /\ Completes
              /\ chip8'.pc = START_ADDRESS + 4
              /\ chip8'.registers[0] = 5
              /\ \A i \in 0..(VIDEO_SIZE - 1) : Peek(chip8'.video, i) = 0

C3_FetchAdvanceExecute == [][C3_CycleStep /\ C3_ScenarioStep]_vars

\* the scenario after its two cycles
C3_Reached ==
    /\ ScenarioLoaded
    /\ main_pc = "loop"
    /\ chip8.opcode = 24581
    /\ chip8.pc = START_ADDRESS + 4
    /\ chip8.registers[0] = 5

(***************************************************************************)
(* C4  Add-registers (8xy4): with a in Vx and b in Vy the cycle comes      *)
(* back, VF is 1 iff a + b > 255 and Vx holds (a + b) mod 256.  Stated for *)
(* a destination other than VF, where flag and result are two registers.   *)
(***************************************************************************)
C4_AddRegisters ==
    [][(TopNibble(Fetched) = 8 /\ LowNibble(Fetched) = 4
          /\ VxOf(Fetched) # 15 /\ Fetches)
       => LET a == chip8.registers[VxOf(Fetched)]
              b == chip8.registers[VyOf(Fetched)]
          IN /\ Completes
             /\ chip8'.registers[15] = (IF a + b > 255 THEN 1 ELSE 0)
             /\ chip8'.registers[VxOf(Fetched)] = (a + b) % 256]_vars

(***************************************************************************)
(* C5  Subtract-registers (8xy5: Vx - Vy, 8xy7: Vy - Vx): the cycle comes  *)
(* back, VF is 1 iff minuend > subtrahend and Vx holds the difference      *)
(* mod 256.  Stated for operands other than VF.                            *)
(***************************************************************************)
C5_SubtractRegisters ==
    [][(TopNibble(Fetched) = 8 /\ LowNibble(Fetched) \in {5, 7}
          /\ VxOf(Fetched) # 15 /\ VyOf(Fetched) # 15 /\ Fetches)
       => LET vx == chip8.registers[VxOf(Fetched)]
              vy == chip8.registers[VyOf(Fetched)]
              minuend == IF LowNibble(Fetched) = 5 THEN vx ELSE vy
              subtrahend == IF LowNibble(Fetched) = 5 THEN vy ELSE vx
          IN /\ Completes
             /\ chip8'.registers[15] = (IF minuend > subtrahend THEN 1 ELSE 0)
             /\ chip8'.registers[VxOf(Fetched)]
                  = (minuend - subtrahend + 256) % 256]_vars

(***************************************************************************)
(* C6  The four conditional skips: 3xkk ends with pc = old pc + 4 iff      *)
(* Vx = kk, 4xkk iff Vx # kk, 5xy0 iff Vx = Vy, 9xy0 iff Vx # Vy, and      *)
(* with pc = old pc + 2 otherwise; only pc, the opcode field and the       *)
(* timers change.                                                          *)
(***************************************************************************)
\* the predicate the instruction set gives the skip w
SkipHolds(w) ==
    LET vx == chip8.registers[VxOf(w)]
        vy == chip8.registers[VyOf(w)]
    IN CASE TopNibble(w) = 3 -> vx = ByteOf(w)
         [] TopNibble(w) = 4 -> vx # ByteOf(w)
         [] TopNibble(w) = 5 -> vx = vy
         [] OTHER -> vx # vy

C6_ConditionalSkips ==
    [][((TopNibble(Fetched) \in {3, 4}
           \/ (TopNibble(Fetched) \in {5, 9} /\ LowNibble(Fetched) = 0))
        /\ Fetches)
       => /\ Completes
          /\ chip8'.pc = chip8.pc + (IF SkipHolds(Fetched) THEN 4 ELSE 2)
          /\ Keeps({"pc", "opcode", "delay_timer", "sound_timer"})]_vars

(***************************************************************************)
(* C7  Call/return: a call (2nnn) at address A, at a depth below 16,       *)
(* stores A + 2 in the stack slot at the stack pointer, adds one to the    *)
(* stack pointer and sets pc = nnn; a return (00EE) at a depth above 0     *)
(* sets pc to the slot below the stack pointer and takes one from the      *)
(* stack pointer; neither writes another slot, and no other step changes   *)
(* the stack or its pointer.  So returns pop the return addresses last-in  *)
(* first-out and the stack pointer is the number of calls not returned.    *)
(***************************************************************************)
C7_CallStep ==
    (TopNibble(Fetched) = 2 /\ chip8.sp < 16 /\ Fetches)
    => /\ Completes
       /\ chip8'.stack = [chip8.stack EXCEPT ![chip8.sp] = chip8.pc + 2]
       /\ chip8'.sp = chip8.sp + 1
       /\ chip8'.pc = AddressOf(Fetched)

C7_ReturnStep ==
    (Fetched = 238 /\ chip8.sp > 0 /\ Fetches)
    => /\ Completes
       /\ chip8'.pc = chip8.stack[chip8.sp - 1]
       /\ chip8'.sp = chip8.sp - 1
       /\ chip8'.stack = chip8.stack

C7_OnlyCallAndReturn ==
    (main_pc' = "loop" /\ (chip8'.sp # chip8.sp \/ chip8'.stack # chip8.stack))
    => /\ TopNibble(Fetched) = 2 \/ (TopNibble(Fetched) = 0 /\ LowNibble(Fetched) = 14)
       /\ Fetches

C7_CallReturn == [][C7_CallStep /\ C7_ReturnStep /\ C7_OnlyCallAndReturn]_vars

\* sixteen nested calls, then the first return: control is back behind the
\* sixteenth call
C7_Reached ==
    /\ main_pc = "loop"
    /\ chip8.opcode = 238
    /\ chip8.sp = 15
    /\ chip8.pc = chip8.stack[15]
    /\ \A i \in 0..15 : chip8.stack[i] = At(2 * i + 1)

(***************************************************************************)
(* C8  Busy-wait (Fx0A) at address A: while every key-state entry is 0 a   *)
(* cycle ends with pc = A again and changes nothing but the opcode field   *)
(* and the timers; once an entry is nonzero the cycle stores the lowest    *)
(* pressed key in Vx and ends with pc = A + 2.  The machine does not stay  *)
(* in the wait forever while a key is held down.                           *)
(***************************************************************************)
AnyKeyDown == \E i \in 0..15 : chip8.keypad[i] # 0
\* the loop is running and the word at pc is Fx0A
Waiting ==
    /\ main_pc = "loop"
    /\ chip8.pc + 1 < MEMORY_SIZE
    /\ TopNibble(Fetched) = 15
    /\ ByteOf(Fetched) = 10

C8_WaitStep ==
    (Waiting /\ Fetches)
    => LET pressed == {i \in 0..15 : chip8.keypad[i] # 0}
           lowest == CHOOSE i \in pressed : \A j \in pressed : i <= j
       IN /\ Completes
          /\ pressed = {} =>
               /\ chip8'.pc = chip8.pc
               /\ Keeps({"opcode", "delay_timer", "sound_timer"})
          /\ pressed # {} =>
               /\ chip8'.pc = chip8.pc + 2
               /\ chip8'.registers =
                    [chip8.registers EXCEPT ![VxOf(Fetched)] = lowest]
               /\ Keeps({"pc", "registers", "opcode", "delay_timer",
                         "sound_timer"})

C8_BusyWait == [][C8_WaitStep]_vars /\ []<>(~(Waiting /\ AnyKeyDown))

\* the wait was left with key 7 stored while key 0 was up
C8_Reached ==
    /\ main_pc = "loop"
    /\ chip8.opcode = OpK(15, 1, 10)
    /\ chip8.pc = START_ADDRESS + 2
    /\ chip8.keypad[0] = 0
    /\ chip8.keypad[7] = 1
    /\ chip8.registers[1] = 7

(***************************************************************************)
(* C9  Drawing the same non-zero sprite twice at the same position, with   *)
(* nothing in between, restores every framebuffer cell, and the second     *)
(* draw leaves VF = 1 when the first turned a pixel on; for every position *)
(* (Vx, Vy) and every height 1..15.  Stated on a blank screen: both draws  *)
(* come back, and the second leaves the screen blank again.                *)
(***************************************************************************)
\* the sprite of h rows at the index register has a set bit
NonZeroSprite(m, h) == \E r \in 0..(h - 1) : Peek(m.memory, m.index + r) # 0
\* every framebuffer cell is off
Blank(video) == \A i \in 0..(VIDEO_SIZE - 1) : Peek(video, i) = 0
\* the program is the same draw twice, from START_ADDRESS on
DrawsTwice ==
    /\ TopNibble(WordAt(chip8, START_ADDRESS)) = 13
    /\ WordAt(chip8, START_ADDRESS + 2) = WordAt(chip8, START_ADDRESS)
    /\ NonZeroSprite(chip8, LowNibble(WordAt(chip8, START_ADDRESS)))

C9_DrawTwiceRestores ==
    [][(DrawsTwice /\ Fetches)
       => /\ (chip8.pc = START_ADDRESS /\ Blank(chip8.video)) => Completes
          /\ (chip8.pc = START_ADDRESS + 2 /\ chip8.opcode = Fetched) =>
                /\ Completes
                /\ Blank(chip8'.video)
                /\ ~Blank(chip8.video) => chip8'.registers[15] = 1]_vars

(***************************************************************************)
(* C10  Screen-clear (00E0) turns every framebuffer cell off, and a draw   *)
(* (Dxyn) of an all-zero sprite on the cleared screen, of any height at    *)
(* any position, comes back and leaves every cell off and VF = 0.          *)
(***************************************************************************)
C10_ClearThenDrawZero ==
    [][/\ (Fetched = 224 /\ Fetches) => (Completes /\ Blank(chip8'.video))
       /\ (TopNibble(Fetched) = 13 /\ chip8.opcode = 224
           /\ ~NonZeroSprite(chip8, LowNibble(Fetched)) /\ Fetches)
          => /\ Completes
             /\ Blank(chip8'.video)
             /\ chip8'.registers[15] = 0]_vars

(***************************************************************************)
(* C11  Timer decay: a cycle that comes back, whatever opcode it executed  *)
(* (the no-op and the busy-wait included), leaves each timer one below the *)
(* value it held after the handler when that value was nonzero, and at 0   *)
(* when it was 0; a timer never falls below 0, and after n cycles of a     *)
(* program that stores no timer a timer that started at d holds            *)
(* max(d - n, 0).                                                          *)
(***************************************************************************)
\* a timer value one cycle later
Decayed(t) == IF t > 0 THEN t - 1 ELSE 0
\* a timer that started at d, n cycles later
DecayedBy(d, n) == IF d > n THEN d - n ELSE 0

C11_DecayStep ==
    (Fetches /\ Completes)
    => LET handler == invoked'[Len(invoked')]
           vx == chip8.registers[VxOf(Fetched)]
           delay == IF handler = "op_fx15" THEN vx ELSE chip8.delay_timer
           sound == IF handler = "op_fx18" THEN vx ELSE chip8.sound_timer
       IN /\ chip8'.delay_timer = Decayed(delay)
          /\ chip8'.sound_timer = Decayed(sound)

\* the machine runs a program of TimerSteps equal words that store no timer
\* and move only forward, and has executed the first n of them
TimerRun(n) ==
    /\ main_pc = "loop"
    /\ n \in 0..TimerSteps
    /\ \A k \in 0..(TimerSteps - 1) :
          /\ WordAt(chip8, At(k)) = WordAt(chip8, START_ADDRESS)
          /\ WordAt(chip8, At(k)) \in TimerWords \ {OpK(15, 3, 10)}
    /\ chip8.pc = At(n)
    /\ chip8.opcode = (IF n = 0 THEN 0 ELSE WordAt(chip8, START_ADDRESS))

C11_DecayRun ==
    \A n \in 0..TimerSteps :
        TimerRun(n) =>
            /\ chip8.delay_timer = DecayedBy(chip8.registers[2], n)
            /\ chip8.sound_timer = DecayedBy(chip8.registers[4], n)

C11_TimerDecay ==
    /\ [][C11_DecayStep]_vars
    /\ [](C11_DecayRun /\ chip8.delay_timer \in 0..255
                       /\ chip8.sound_timer \in 0..255)

\* three no-ops on: the delay timer, started at 2, has stopped at 0 and the
\* sound timer, started at 255, is at 252
C11_Reached ==
    /\ TimerRun(3)
    /\ WordAt(chip8, START_ADDRESS) = OpK(0, 0, 1)
    /\ chip8.registers[2] = 2
    /\ chip8.delay_timer = 0
    /\ chip8.registers[4] = 255
    /\ chip8.sound_timer = 252

(***************************************************************************)
(* C12  Loading a program image of len <= 3584 bytes copies the bytes      *)
(* unchanged and in order into memory[0x200 .. 0x200 + len) and changes    *)
(* no other memory cell (the font at 0x050..0x09F and the cells from       *)
(* 0x200 + len on keep their values) and no other field of the machine.    *)
(***************************************************************************)
\* the step is the call of load_rom and it returned Ok
LoadsOk == main_pc = "load" /\ main_pc' = "loop" /\ load_result' = "Ok"

\* the step took memory to the image of the given bytes
LoadedFrom(bytes) ==
    /\ Len(bytes) <= MEMORY_SIZE - START_ADDRESS
    /\ \A i \in 1..Len(bytes) :
          Peek(chip8'.memory, START_ADDRESS + i - 1) = bytes[i]
    /\ \A a \in 0..(MEMORY_SIZE - 1) :
          (a < START_ADDRESS \/ a >= START_ADDRESS + Len(bytes))
              => Peek(chip8'.memory, a) = Peek(chip8.memory, a)
    /\ \A i \in 1..FONTSET_SIZE :
          Peek(chip8'.memory, FONTSET_START_ADDRESS + i - 1) = FONTSET[i]

C12_LoadCopiesImage ==
    [][LoadsOk =>
          /\ \E file \in QuietFiles : file.readable /\ LoadedFrom(file.bytes)
          /\ Keeps({"memory"})]_vars

\* the largest image is in memory, its last byte in the last cell
C12_Reached ==
    /\ main_pc = "loop"
    /\ load_result = "Ok"
    /\ chip8.pc = START_ADDRESS
    /\ chip8.opcode = 0
    /\ Peek(chip8.memory, START_ADDRESS) = 18
    /\ Peek(chip8.memory, MEMORY_SIZE - 1) = 255
    /\ Peek(chip8.memory, FONTSET_START_ADDRESS) = 240
    /\ chip8.registers = new.registers

(***************************************************************************)
(* C13  Unknown opcodes are no-ops: a cycle on a word whose dispatch key   *)
(* (top nibble; then bottom nibble under the prefixes 0x0, 0x8, 0xE;       *)
(* bottom byte under the prefix 0xF) has no handler assigned comes back    *)
(* and changes only the opcode field, pc (old pc + 2) and the timers.      *)
(***************************************************************************)
\* the keys Chip8::new assigns no handler to
Unassigned(w) ==
    CASE TopNibble(w) = 0  -> LowNibble(w) \notin {0, 14}
      [] TopNibble(w) = 8  -> LowNibble(w) \notin {0, 1, 2, 3, 4, 5, 6, 7, 14}
      [] TopNibble(w) = 14 -> LowNibble(w) \notin {1, 14}
      [] TopNibble(w) = 15 ->
            ByteOf(w) \notin {7, 10, 21, 24, 30, 41, 51, 85, 101}
      [] OTHER -> FALSE

C13_UnknownIsNoOp ==
    [][(Unassigned(Fetched) /\ Fetches)
       => /\ Completes
          /\ chip8'.opcode = Fetched
          /\ chip8'.pc = chip8.pc + 2
          /\ Keeps({"opcode", "pc", "delay_timer", "sound_timer"})]_vars

(***************************************************************************)
(* C14  Set-index (Annn) sets the index register to nnn and leaves pc at   *)
(* old pc + 2; jump-with-offset (Bnnn) sets pc = V0 + nnn and leaves the   *)
(* index register as it was.                                               *)
(***************************************************************************)
C14_SetIndex ==
    [][/\ (TopNibble(Fetched) = 10 /\ Fetches)
          => /\ Completes
             /\ chip8'.index = AddressOf(Fetched)
             /\ chip8'.pc = chip8.pc + 2
       /\ (TopNibble(Fetched) = 11 /\ Fetches)
          => /\ Completes
             /\ chip8'.pc = chip8.registers[0] + AddressOf(Fetched)
             /\ chip8'.index = chip8.index]_vars

(***************************************************************************)
(* C15  Stack bounds: the stack pointer is always in 0..16; a call (2nnn)  *)
(* at depth 16 and a return (00EE) at depth 0 end in an abort, and the     *)
(* aborted cycle has written no stack slot, has not moved the stack        *)
(* pointer, and has changed no register and no memory cell; pc is where    *)
(* the fetch left it (old pc + 2), not at a call target or return address. *)
(***************************************************************************)
\* the cycle aborted before its handler changed anything
AbortsClean ==
    /\ main_pc' = "panicked"
    /\ chip8'.pc = chip8.pc + 2
    /\ Keeps({"opcode", "pc"})

C15_StackBounds ==
    /\ [](chip8.sp \in 0..16)
    /\ [][/\ (TopNibble(Fetched) = 2 /\ chip8.sp = 16 /\ Fetches) => AbortsClean
          /\ (Fetched = 238 /\ chip8.sp = 0 /\ Fetches) => AbortsClean]_vars

(***************************************************************************)
(* C16  Draw placement (Dxyn) wraps: with the sprite's top-left cell at    *)
(* (Vx mod 64, Vy mod 32), a set sprite bit of row r and column c toggles  *)
(* exactly the framebuffer cell of row (Vy mod 32 + r) mod 32 and column   *)
(* (Vx mod 64 + c) mod 64, at linear index row * 64 + column; the cycle    *)
(* comes back and no other cell changes.                                   *)
(***************************************************************************)
\* bit c (from the left) of row r of the sprite at the index register
SpriteBit(m, r, c) == (Peek(m.memory, m.index + r) \div (2 ^ (7 - c))) % 2
\* the linear index of the cell the sprite's row r, column c falls on
WrappedCell(w, r, c) ==
    LET x == chip8.registers[VxOf(w)] % VIDEO_WIDTH
        y == chip8.registers[VyOf(w)] % VIDEO_HEIGHT
    IN ((y + r) % VIDEO_HEIGHT) * VIDEO_WIDTH + ((x + c) % VIDEO_WIDTH)
\* the cells the set bits of the sprite fall on
ToggledCells(w) ==
    {WrappedCell(w, rc[1], rc[2]) : rc \in
        {b \in (0..(LowNibble(w) - 1)) \X (0..7) :
            SpriteBit(chip8, b[1], b[2]) = 1}}

C16_DrawWraps ==
    [][(TopNibble(Fetched) = 13 /\ chip8.index + 15 < MEMORY_SIZE /\ Fetches)
       => /\ Completes
          /\ \A i \in 0..(VIDEO_SIZE - 1) :
                Peek(chip8'.video, i) =
                    IF i \in ToggledCells(Fetched)
                    THEN 255 - Peek(chip8.video, i)
                    ELSE Peek(chip8.video, i)]_vars

(***************************************************************************)
(* C17  Add-immediate (7xkk): with v in Vx the cycle comes back, also when *)
(* v + kk > 255, Vx holds (v + kk) mod 256 and every other register, VF    *)
(* included, is as before.                                                 *)
(***************************************************************************)
C17_AddImmediate ==
    [][(TopNibble(Fetched) = 7 /\ Fetches)
       => LET v == chip8.registers[VxOf(Fetched)]
          IN /\ Completes
             /\ chip8'.registers =
                  [chip8.registers EXCEPT
                      ![VxOf(Fetched)] = (v + ByteOf(Fetched)) % 256]]_vars

(***************************************************************************)
(* C18  Shifts: for every x in 0..15, with v in Vx, shift-right (8xy6)     *)
(* leaves VF = v mod 2 and shift-left (8xyE) leaves VF = bit 7 of v; for   *)
(* x other than 0xF, Vx holds v div 2 and (2 * v) mod 256 respectively.    *)
(***************************************************************************)
C18_Shifts ==
    [][(TopNibble(Fetched) = 8 /\ LowNibble(Fetched) \in {6, 14} /\ Fetches)
       => LET x == VxOf(Fetched)
              v == chip8.registers[x]
              right == LowNibble(Fetched) = 6
          IN /\ Completes
             /\ chip8'.registers[15] = (IF right THEN v % 2 ELSE v \div 128)
             /\ x # 15 =>
                  chip8'.registers[x] =
                      (IF right THEN v \div 2 ELSE (2 * v) % 256)]_vars

(***************************************************************************)
(* C19  Load failure: when the program image cannot be opened or read,     *)
(* load_rom returns an error and the machine is exactly as it was before   *)
(* the call.                                                               *)
(***************************************************************************)
C19_LoadFailure ==
    [][/\ (main_pc = "load" /\ LoadRomFrom(UnreadableFiles))
          => (load_result' = "Err" /\ chip8' = chip8)
       /\ (main_pc = "load" /\ load_result' = "Err") => chip8' = chip8]_vars

\* load_rom has failed and main is in its loop on the machine as new left it
C19_Reached ==
    /\ load_result = "Err"
    /\ main_pc = "loop"
    /\ chip8 = new

(***************************************************************************)
(* C20  Framebuffer cells are binary: in every reachable state each of the *)
(* 2048 framebuffer cells holds 0 (off) or 0xFF (on), so the collision     *)
(* test of the draw (cell = 0xFF) sees every cell that is on.              *)
(***************************************************************************)
C20_BinaryCells ==
    \A i \in 0..(VIDEO_SIZE - 1) : Peek(chip8.video, i) \in {0, 255}

\* a draw has come back and left cells on
C20_Reached ==
    /\ main_pc = "loop"
    /\ TopNibble(chip8.opcode) = 13
    /\ \E i \in 0..(VIDEO_SIZE - 1) : Peek(chip8.video, i) = 255

(***************************************************************************)
(* C21  Key state is owned by the host: no cycle, whatever its opcode (the *)
(* key skips Ex9E, ExA1 and the wait Fx0A included), changes a key-state   *)
(* entry; an entry changes only in the host's input processing, which      *)
(* writes nothing of the machine but key-state entries, 1 on key-down and  *)
(* 0 on key-up.                                                            *)
(***************************************************************************)
\* the step changes a key-state entry
KeyStateChanges == chip8'.keypad # chip8.keypad

C21_HostOwnsKeys ==
    [][/\ KeyStateChanges =>
            /\ ~Cycle
            /\ ProcessInput
            /\ Keeps({"keypad"})
            /\ invoked' = invoked
            /\ \A i \in 0..15 :
                  chip8'.keypad[i] # chip8.keypad[i] => chip8'.keypad[i] \in {0, 1}
       /\ (main_pc = "loop" /\ invoked' # invoked) => ~KeyStateChanges]_vars

\* key 0 is held down and the key skip on it has skipped
C21_Reached ==
    /\ main_pc = "loop"
    /\ chip8.opcode = OpK(14, 0, 158)
    /\ chip8.registers[0] = 0
    /\ chip8.keypad[0] = 1
    /\ chip8.pc = START_ADDRESS + 6

(***************************************************************************)
(* C22  Flag-versus-result write order: in 8xy4, 8xy5 and 8xy7 the flag is *)
(* written to VF before the result is written to Vx, so with x = 0xF the   *)
(* step ends with VF holding the result: after 8Fy4, VF = (old VF + Vy)    *)
(* mod 256; after 8Fy5, VF = (f - Vy) mod 256 with f = 1 if old VF > Vy    *)
(* else 0; after 8Fy7, VF = (Vy - f) mod 256 with f = 1 if Vy > old VF     *)
(* else 0.  Vy is the operand of the subtraction: with y = 0xF as well it  *)
(* is the flag f itself.                                                   *)
(***************************************************************************)
\* the value the write order leaves in VF, from the registers before the step
ResultInFlag(w) ==
    LET vf == chip8.registers[15]
        vy == chip8.registers[VyOf(w)]
        f == IF LowNibble(w) = 5 THEN (IF vf > vy THEN 1 ELSE 0)
             ELSE (IF vy > vf THEN 1 ELSE 0)
        operand == IF VyOf(w) = 15 THEN f ELSE vy
    IN CASE LowNibble(w) = 4 -> (vf + vy) % 256
         [] LowNibble(w) = 5 -> (f - operand + 256) % 256
         [] OTHER -> (operand - f + 256) % 256

C22_FlagThenResult ==
    [][(TopNibble(Fetched) = 8 /\ VxOf(Fetched) = 15
          /\ LowNibble(Fetched) \in {4, 5, 7} /\ Fetches)
       => /\ Completes
          /\ chip8'.registers[15] = ResultInFlag(Fetched)]_vars

====
